---------------------------- MODULE Spec2Model ----------------------------
(***************************************************************************)
(* CHIP-8 engine (chip8_engine/src/lib.rs) driven by a front-end: the      *)
(* machine struct, fetch / execute / timers, and the front-end's calls     *)
(* (tick, timers, set_keypad).  A Rust panic ends the run; the struct is   *)
(* kept as it stood when the panic was raised.                             *)
(***************************************************************************)
EXTENDS Integers, Sequences, FiniteSets

(* ------------------------------ constants ------------------------------ *)
SCREEN_WIDTH == 64
SCREEN_HEIGHT == 32
RAM_SIZE == 4096
V_REG_SIZE == 16
STACK_REG_SIZE == 16
KEYPAD_SIZE == 16
START_ADDRESS == 512
FONTSET_SIZE == 80
TICKS_PER_FRAME == 10
U8 == 256
U16 == 65536

FONTSET ==
  << 240, 144, 144, 144, 240,   32,  96,  32,  32, 112,
     240,  16, 240, 128, 240,  240,  16, 240,  16, 240,
     144, 144, 240,  16,  16,  240, 128, 240,  16, 240,
     240, 128, 240, 144, 240,  240,  16,  32,  64,  64,
     240, 144, 240, 144, 240,  240, 144, 240,  16, 240,
     240, 144, 240, 144, 144,  224, 144, 224, 144, 224,
     240, 128, 128, 128, 240,  224, 144, 144, 144, 224,
     240, 128, 240, 128, 240,  240, 128, 240, 128, 128 >>

(* ------------------------------- bounds -------------------------------- *)
\* keys 0..MaxKey are the ones the front-end presses and releases
MaxKey == 1
\* timer values 0..MaxTimer (and 255) are loaded by the timer programs
MaxTimer == 2
\* a run executes at most MaxCalls subroutine calls
MaxCalls == 18
\* arithmetic operands are 0..MaxArith and 255-MaxArith..255
MaxArith == 2

(* --------------------------- u8 bit operations -------------------------- *)
RECURSIVE BitAnd(_, _)
BitAnd(a, b) ==
  IF a = 0 \/ b = 0 THEN 0
  ELSE (a % 2) * (b % 2) + 2 * BitAnd(a \div 2, b \div 2)

RECURSIVE BitOr(_, _)
BitOr(a, b) ==
  IF a = 0 THEN b
  ELSE IF b = 0 THEN a
  ELSE (IF a % 2 = 1 \/ b % 2 = 1 THEN 1 ELSE 0) + 2 * BitOr(a \div 2, b \div 2)

RECURSIVE BitXor(_, _)
BitXor(a, b) ==
  IF a = 0 THEN b
  ELSE IF b = 0 THEN a
  ELSE ((a + b) % 2) + 2 * BitXor(a \div 2, b \div 2)

\* (v >> s) & 1
Bit(v, s) == (v \div (2 ^ s)) % 2

(* ------------------------------ the struct ------------------------------ *)
VARIABLES
  chip8,            \* the Chip8 struct
  panicked,         \* a tick has panicked: the run is over
  overflow_checks,  \* build profile: integer overflow panics (debug) or wraps (release)
  calls,            \* history: 2nnn ticks completed
  returns,          \* history: 00EE ticks completed
  call_sites,       \* history: addresses of the calls not yet returned from
  last,             \* history: opcode of the last tick, screen and registers before it
  timer_hist,       \* history: per timer, the value last loaded and advances since
  frame             \* desktop loop: ticks done in the current frame, -1 once it has quit

vars == << chip8, panicked, overflow_checks, calls, returns, call_sites, last,
           timer_hist, frame >>

Ok(c) == [c |-> c, panic |-> FALSE]
Panic(c) == [c |-> c, panic |-> TRUE]

new ==
  [ pc |-> START_ADDRESS,
    memory |-> [a \in 0..(RAM_SIZE - 1) |-> IF a < FONTSET_SIZE THEN FONTSET[a + 1] ELSE 0],
    v_reg |-> [i \in 0..(V_REG_SIZE - 1) |-> 0],
    index_reg |-> 0,
    stack |-> [i \in 0..(STACK_REG_SIZE - 1) |-> 0],
    stack_pointer |-> 0,
    sound_timer |-> 0,
    delay_timer |-> 0,
    screen |-> [i \in 0..(SCREEN_WIDTH * SCREEN_HEIGHT - 1) |-> 0],
    keypad |-> [k \in 0..(KEYPAD_SIZE - 1) |-> FALSE] ]

\* copies the image into memory from START_ADDRESS on
load_rom(c, rom) ==
  [c EXCEPT !.memory = [a \in 0..(RAM_SIZE - 1) |->
      IF a >= START_ADDRESS /\ a < START_ADDRESS + Len(rom)
      THEN rom[a - START_ADDRESS + 1] ELSE c.memory[a]]]

set_keypad(c, idx, pressed) ==
  IF idx < KEYPAD_SIZE THEN [c EXCEPT !.keypad[idx] = pressed] ELSE c

push(c, val) ==
  IF c.stack_pointer >= STACK_REG_SIZE
  THEN Panic(c)                                   \* index out of bounds
  ELSE Ok([c EXCEPT !.stack[c.stack_pointer] = val,
                    !.stack_pointer = c.stack_pointer + 1])

\* [c, val, panic]
pop(c, checks) ==
  IF c.stack_pointer = 0
  THEN IF checks
       THEN [c |-> c, val |-> 0, panic |-> TRUE]  \* subtract with overflow
       ELSE [c |-> [c EXCEPT !.stack_pointer = U16 - 1],
             val |-> 0, panic |-> TRUE]           \* wraps, then index out of bounds
  ELSE [c |-> [c EXCEPT !.stack_pointer = c.stack_pointer - 1],
        val |-> c.stack[c.stack_pointer - 1], panic |-> FALSE]

\* [c, op, panic]
fetch(c) ==
  IF c.pc >= RAM_SIZE \/ c.pc + 1 >= RAM_SIZE
  THEN [c |-> c, op |-> 0, panic |-> TRUE]        \* index out of bounds
  ELSE [c |-> [c EXCEPT !.pc = c.pc + 2],
        op |-> c.memory[c.pc] * 256 + c.memory[c.pc + 1],
        panic |-> FALSE]

\* timers without the > 0 guards: wrapping decrements
timers_wrapping(c) ==
  [c EXCEPT !.delay_timer = (c.delay_timer - 1) % U8,
            !.sound_timer = (c.sound_timer - 1) % U8]

timers(c) ==
  LET d == IF c.delay_timer > 0 THEN c.delay_timer - 1 ELSE c.delay_timer
      s == IF c.sound_timer > 0 THEN c.sound_timer - 1 ELSE c.sound_timer
  IN  [c EXCEPT !.delay_timer = d, !.sound_timer = s]


(* ------------------------------- execute -------------------------------- *)
\* a pixel flip that adds the sprite bit to the cell
flip_pixel_adds(cell, sprite_pixel) == cell + sprite_pixel

\* self.screen[screen_idx] ^= sprite_pixel
flip_pixel(cell, sprite_pixel) == BitXor(cell, sprite_pixel)

\* DRW inner loop: columns column..7 of one sprite row; Vx is read per pixel
RECURSIVE draw_columns(_, _, _, _, _)
draw_columns(c, x, ycoord, pixel_data, column) ==
  IF column >= 8 THEN c
  ELSE LET xcoord == (c.v_reg[x] + column) % SCREEN_WIDTH
           sprite_pixel == Bit(pixel_data, 7 - column)
           screen_idx == xcoord + SCREEN_WIDTH * ycoord
           c1 == [c EXCEPT !.v_reg[15] =
                    BitOr(c.v_reg[15], BitAnd(sprite_pixel, c.screen[screen_idx]))]
           c2 == [c1 EXCEPT !.screen[screen_idx] =
                    flip_pixel(c1.screen[screen_idx], sprite_pixel)]
       IN  draw_columns(c2, x, ycoord, pixel_data, column + 1)

\* DRW outer loop: rows row..n-1; Vy is read per row
RECURSIVE draw_rows(_, _, _, _, _, _)
draw_rows(c, x, y, n, row, checks) ==
  IF row >= n THEN Ok(c)
  ELSE IF c.index_reg + row >= U16 /\ checks
  THEN Panic(c)                                   \* add with overflow
  ELSE LET addr == (c.index_reg + row) % U16
       IN  IF addr >= RAM_SIZE
           THEN Panic(c)                          \* index out of bounds
           ELSE LET ycoord == (c.v_reg[y] + row) % SCREEN_HEIGHT
                IN  draw_rows(draw_columns(c, x, ycoord, c.memory[addr], 0),
                              x, y, n, row + 1, checks)

\* a draw that leaves VF as the previous instruction set it
draw_keeps_flag(c, x, y, n, checks) ==
  draw_rows(c, x, y, n, 0, checks)

draw(c, x, y, n, checks) ==
  draw_rows([c EXCEPT !.v_reg[15] = 0], x, y, n, 0, checks)

\* Fx08 arm: lowest pressed key, or none (KEYPAD_SIZE)
first_key(c) ==
  IF \E k \in 0..(KEYPAD_SIZE - 1) : c.keypad[k]
  THEN CHOOSE k \in 0..(KEYPAD_SIZE - 1) :
         c.keypad[k] /\ \A j \in 0..(k - 1) : ~c.keypad[j]
  ELSE KEYPAD_SIZE

wait_key(c, x) ==
  IF first_key(c) < KEYPAD_SIZE
  THEN [c EXCEPT !.v_reg[x] = first_key(c)]
  ELSE [c EXCEPT !.pc = c.pc - 2]

skip(c, cond) == IF cond THEN [c EXCEPT !.pc = c.pc + 2] ELSE c

\* Ex9E (want = TRUE) and ExA1 (want = FALSE)
skip_key(c, x, want) ==
  IF c.v_reg[x] >= KEYPAD_SIZE
  THEN Panic(c)                                   \* index out of bounds
  ELSE Ok(skip(c, c.keypad[c.v_reg[x]] = want))

\* Fx33 arm: three writes, each bounds-checked when it is made
store_bcd(c, x) ==
  LET dec == c.v_reg[x]
      i == c.index_reg
  IN  IF i >= RAM_SIZE THEN Panic(c)
      ELSE LET c1 == [c EXCEPT !.memory[i] = dec \div 100]
           IN  IF i + 1 >= RAM_SIZE THEN Panic(c1)
               ELSE LET c2 == [c1 EXCEPT !.memory[i + 1] = (dec \div 10) % 10]
                    IN  IF i + 2 >= RAM_SIZE THEN Panic(c2)
                        ELSE Ok([c2 EXCEPT !.memory[i + 2] = dec % 10])

\* Fx55 arm: registers index..x to memory, one write at a time
RECURSIVE store_regs(_, _, _)
store_regs(c, x, index) ==
  IF index > x THEN Ok(c)
  ELSE IF index + c.index_reg >= RAM_SIZE THEN Panic(c)
  ELSE store_regs([c EXCEPT !.memory[index + c.index_reg] = c.v_reg[index]],
                  x, index + 1)

\* Fx66 arm: registers index..x from memory at start_idx
RECURSIVE load_regs(_, _, _, _)
load_regs(c, x, start_idx, index) ==
  IF index > x THEN c
  ELSE load_regs([c EXCEPT !.v_reg[index] = c.memory[index + start_idx]],
                 x, start_idx, index + 1)

ret(c, checks) ==
  LET p == pop(c, checks)
  IN  IF p.panic THEN Panic(p.c) ELSE Ok([p.c EXCEPT !.pc = p.val])

\* a call that remembers the call instruction instead of the one after it
call_pushes_call_site(c, nnn) ==
  LET p == push(c, c.pc - 2)
  IN  IF p.panic THEN p ELSE Ok([p.c EXCEPT !.pc = nnn])

call(c, nnn) ==
  LET p == push(c, c.pc)
  IN  IF p.panic THEN p ELSE Ok([p.c EXCEPT !.pc = nnn])

\* 8xy4 with the carry never raised
add_carry_dropped(c, x, y) ==
  [[c EXCEPT !.v_reg[15] = 0] EXCEPT !.v_reg[x] = (c.v_reg[x] + c.v_reg[y]) % U8]

\* 8xy4 arm: sum and carry from the operands, VF written, then Vx
add_carry(c, x, y) ==
  LET vx == c.v_reg[x]
      vy == c.v_reg[y]
      c1 == [c EXCEPT !.v_reg[15] = IF vx + vy >= U8 THEN 1 ELSE 0]
  IN  [c1 EXCEPT !.v_reg[x] = (vx + vy) % U8]

\* a subtraction whose VF is the borrow itself
sub_borrow_flag(c, x, a, b) ==
  LET c1 == [c EXCEPT !.v_reg[15] = IF a < b THEN 1 ELSE 0]
  IN  [c1 EXCEPT !.v_reg[x] = (a - b) % U8]

\* 8xy5 (a = Vx, b = Vy) and 8xy7 (a = Vy, b = Vx) arms: Vx := a - b,
\* VF written first, then Vx
sub_borrow(c, x, a, b) ==
  LET c1 == [c EXCEPT !.v_reg[15] = IF a < b THEN 0 ELSE 1]
  IN  [c1 EXCEPT !.v_reg[x] = (a - b) % U8]

\* 8xy6 and 8xyE arms: VF written first, then Vx shifted as it then stands
shift_right(c, x) ==
  LET c1 == [c EXCEPT !.v_reg[15] = c.v_reg[x] % 2]
  IN  [c1 EXCEPT !.v_reg[x] = c1.v_reg[x] \div 2]

shift_left(c, x) ==
  LET c1 == [c EXCEPT !.v_reg[15] = Bit(c.v_reg[x], 7)]
  IN  [c1 EXCEPT !.v_reg[x] = (c1.v_reg[x] * 2) % U8]

\* the 8xy_ arms
alu(c, x, y, n) ==
  LET vx == c.v_reg[x]
      vy == c.v_reg[y]
  IN  IF n = 0 THEN [c EXCEPT !.v_reg[x] = vy]
      ELSE IF n = 1 THEN [c EXCEPT !.v_reg[x] = BitOr(vx, vy)]
      ELSE IF n = 2 THEN [c EXCEPT !.v_reg[x] = BitAnd(vx, vy)]
      ELSE IF n = 3 THEN [c EXCEPT !.v_reg[x] = BitXor(vx, vy)]
      ELSE IF n = 4 THEN add_carry(c, x, y)
      ELSE IF n = 5 THEN sub_borrow(c, x, vx, vy)
      ELSE IF n = 6 THEN shift_right(c, x)
      ELSE IF n = 7 THEN sub_borrow(c, x, vy, vx)
      ELSE shift_left(c, x)                        \* n = 14

\* 7xnn that raises VF on overflow the way 8xy4 does
add_imm_sets_flag(c, x, nn) ==
  [[c EXCEPT !.v_reg[15] = IF c.v_reg[x] + nn >= U8 THEN 1 ELSE 0]
     EXCEPT !.v_reg[x] = (c.v_reg[x] + nn) % U8]

\* 7xnn arm: overflowing_add, the overflow only printed
add_imm(c, x, nn) == [c EXCEPT !.v_reg[x] = (c.v_reg[x] + nn) % U8]

\* the match of execute, arm by arm in source order; c is the struct after fetch
execute(c, op, random, checks) ==
  LET n0 == op \div 4096
      x == (op \div 256) % 16
      y == (op \div 16) % 16
      n == op % 16
      nn == op % 256
      nnn == op % 4096
  IN  IF op = 0 THEN Ok(c)
      ELSE IF op = 224 THEN
        Ok([c EXCEPT !.screen = [i \in 0..(SCREEN_WIDTH * SCREEN_HEIGHT - 1) |-> 0]])
      ELSE IF op = 238 THEN ret(c, checks)
      ELSE IF n0 = 0 THEN Ok([c EXCEPT !.pc = nnn])
      ELSE IF n0 = 2 THEN call(c, nnn)
      ELSE IF n0 = 3 THEN Ok(skip(c, c.v_reg[x] = nn))
      ELSE IF n0 = 4 THEN Ok(skip(c, c.v_reg[x] # nn))
      ELSE IF n0 = 5 /\ n = 0 THEN Ok(skip(c, c.v_reg[x] = c.v_reg[y]))
      ELSE IF n0 = 6 THEN Ok([c EXCEPT !.v_reg[x] = nn])
      ELSE IF n0 = 7 THEN Ok(add_imm(c, x, nn))
      ELSE IF n0 = 8 /\ n \in {0, 1, 2, 3, 4, 5, 6, 7, 14} THEN Ok(alu(c, x, y, n))
      ELSE IF n0 = 9 /\ n = 0 THEN Ok(skip(c, c.v_reg[x] # c.v_reg[y]))
      ELSE IF n0 = 10 THEN Ok([c EXCEPT !.index_reg = nnn])
      ELSE IF n0 = 11 THEN Ok([c EXCEPT !.pc = c.v_reg[0] + nnn])
      ELSE IF n0 = 12 THEN Ok([c EXCEPT !.v_reg[x] = BitAnd(random, nnn % U8)])
      ELSE IF n0 = 13 THEN draw(c, x, y, n, checks)
      ELSE IF n0 = 14 /\ nn = 158 THEN skip_key(c, x, TRUE)
      ELSE IF n0 = 14 /\ nn = 161 THEN skip_key(c, x, FALSE)
      ELSE IF n0 = 15 /\ nn = 7 THEN Ok([c EXCEPT !.v_reg[x] = c.delay_timer])
      ELSE IF n0 = 15 /\ nn = 8 THEN Ok(wait_key(c, x))
      ELSE IF n0 = 15 /\ nn = 21 THEN Ok([c EXCEPT !.delay_timer = c.v_reg[x]])
      ELSE IF n0 = 15 /\ nn = 24 THEN Ok([c EXCEPT !.sound_timer = c.v_reg[x]])
      ELSE IF n0 = 15 /\ nn = 30 THEN
        Ok([c EXCEPT !.index_reg = (c.index_reg + c.v_reg[x]) % U16])
      ELSE IF n0 = 15 /\ nn = 41 THEN Ok([c EXCEPT !.index_reg = c.v_reg[x] * 5])
      ELSE IF n0 = 15 /\ nn = 51 THEN store_bcd(c, x)
      ELSE IF n0 = 15 /\ nn = 85 THEN store_regs(c, x, 0)
      ELSE IF n0 = 15 /\ nn = 102 THEN Ok(load_regs(c, x, c.v_reg[0], 0))
      ELSE Ok(c)                                  \* Unknown opcode

\* a tick that also advances the timers
tick_advances_timers(c, random, checks) ==
  LET f == fetch(c)
  IN  IF f.panic THEN Panic(f.c)
      ELSE LET e == execute(f.c, f.op, random, checks)
           IN  [c |-> timers(e.c), panic |-> e.panic]

\* tick: fetch, then execute
tick(c, random, checks) ==
  LET f == fetch(c)
  IN  IF f.panic THEN Panic(f.c) ELSE execute(f.c, f.op, random, checks)


(* ------------------------------- programs ------------------------------- *)
\* an opcode word from its four nibbles
W(a, b, c, d) == a * 4096 + b * 256 + c * 16 + d

\* the byte image of a sequence of opcode words, big-endian
Bytes(words) ==
  [i \in 1..(2 * Len(words)) |->
     IF i % 2 = 1 THEN words[(i + 1) \div 2] \div 256 ELSE words[i \div 2] % 256]

\* 0x200: a subroutine that calls itself
RomRecurse == << W(2,2,0,0) >>

\* 0x200: call s1, 0x202: spin; s_k at 0x204 + 4(k-1): call s_k+1, return;
\* s_16: return.  Sixteen nested calls, then sixteen returns.
RomNested ==
  << W(2,2,0,4), W(0,2,0,2) >>
  \o [i \in 1..30 |-> IF i % 2 = 1 THEN W(2,0,0,0) + 516 + 4 * ((i + 1) \div 2)
                      ELSE W(0,0,14,14)]
  \o << W(0,0,14,14) >>

\* a return with nothing on the stack
RomRetEmpty == << W(0,0,14,14) >>

\* 0x200: call 0x204, 0x202: back to 0x200; 0x204: return
RomCallLoop == << W(2,2,0,4), W(0,2,0,0), W(0,0,14,14) >>

\* a call to the last address
RomCallHigh == << W(2,15,15,15) >>

\* jumps near and past the end of memory
RomRunOff == << W(11,15,15,14) >>
RomRunOdd == << W(11,15,15,15) >>
RomJumpFar == << W(6,0,15,15), W(11,15,15,15) >>
\* writes 4000 (skip if V0 # 0) at 0xFFE and runs it
RomSkipEnd ==
  << W(6,0,4,0), W(6,1,0,0), W(10,15,15,14), W(15,1,5,5), W(0,15,15,14) >>

\* opcodes outside the instruction table, 1nnn, Fx0A
RomDispatch ==
  << W(5,1,2,1), W(9,1,2,1), W(8,1,2,8), W(8,1,2,15), W(14,1,0,0), W(15,1,15,15),
     W(1,2,0,0), W(0,2,1,2), W(0,0,0,0), W(15,1,0,10), W(15,1,0,8), W(15,1,6,6),
     W(0,2,1,8) >>

\* V0 := t1, V1 := t2, DT := V0, ST := V1, V2 := DT, spin
RomTimers(t1, t2) ==
  << W(6,0,0,0) + t1, W(6,1,0,0) + t2, W(15,0,1,5), W(15,1,1,8), W(15,2,0,7),
     W(0,2,0,10) >>

\* glyph 0 three times at (62, 30), wrapping both edges
RomDraw ==
  << W(6,0,3,14), W(6,1,1,14), W(13,0,1,5), W(13,0,1,5), W(13,0,1,5), W(0,2,0,10) >>

\* glyph 0 at (0, 0), then glyph 1 twice on top of it
RomDrawOver ==
  << W(13,0,1,5), W(10,0,0,5), W(13,0,1,5), W(13,0,1,5), W(0,2,0,8) >>

\* glyph 0 three times at (VF, V0): the draw rewrites its own x register
RomDrawVF == << W(13,15,0,5), W(13,15,0,5), W(13,15,0,5), W(0,2,0,6) >>

\* V0 := 255, DT := V0 (ST := V0), spin
RomDelayMax == << W(6,0,15,15), W(15,0,1,5), W(0,2,0,4) >>
RomSoundMax == << W(6,0,15,15), W(15,0,1,8), W(0,2,0,4) >>

TimerPairs == (0..MaxTimer) \X (0..MaxTimer)

\* operand values: the lowest and the highest MaxArith + 1 bytes
ArithVals == (0..MaxArith) \cup ((U8 - 1 - MaxArith)..(U8 - 1))
\* (x, y) of the arithmetic programs: distinct, y = F, x = y
RegPairs == {<<0, 1>>, <<2, 15>>, <<3, 3>>}

\* Vx := a, Vy := b, 8xyn, spin
RomAlu(n, x, y, a, b) ==
  << W(6,x,0,0) + a, W(6,y,0,0) + b, W(8,x,y,n), W(0,2,0,6) >>

\* VF := 7, Vx := a, Vx += b, spin
RomAddImm(x, a, b) ==
  << W(6,15,0,7), W(6,x,0,0) + a, W(7,x,0,0) + b, W(0,2,0,6) >>

\* scenario A: V1 := 5, V1 += 3
RomScenarioA == << W(6,1,0,5), W(7,1,0,3), W(0,2,0,4) >>

\* I := 0x300, V0 := 0x11, V1 := 0x22, F155, V0 := 0, V1 := 0, F165, F166, spin
RomStoreLoad ==
  << W(10,3,0,0), W(6,0,1,1), W(6,1,2,2), W(15,1,5,5), W(6,0,0,0), W(6,1,0,0),
     W(15,1,6,5), W(15,1,6,6), W(0,2,1,0) >>

\* V0 := 0xAA, F055 with I = 0; V0 := 156, F033 with I = 0
RomStoreFont == << W(6,0,10,10), W(15,0,5,5), W(0,2,0,4) >>
RomBcdFont == << W(6,0,9,12), W(15,0,3,3), W(0,2,0,4) >>
\* scenario C: V0 := 156, I := 0x300, F033
RomScenarioC == << W(6,0,9,12), W(10,3,0,0), W(15,0,3,3), W(0,2,0,6) >>

\* index register at the end of memory: F033, F155, D012, F165 there
RomBcdEnd == << W(6,0,15,15), W(10,15,15,14), W(15,0,3,3) >>
RomStoreEnd == << W(6,0,1,1), W(6,1,2,2), W(10,15,15,15), W(15,1,5,5) >>
RomDrawEnd == << W(10,15,15,15), W(13,0,1,2) >>
RomLoadEnd == << W(10,15,15,15), W(15,1,6,5), W(0,2,0,4) >>

\* timers loaded with 3, then opcodes of every kind, the subroutine at 0x21C
RomMixed ==
  << W(6,0,0,3), W(15,0,1,5), W(15,0,1,8), W(6,1,0,5), W(8,0,1,4), W(7,1,15,15),
     W(10,3,0,0), W(15,0,3,3), W(15,1,5,5), W(13,0,1,1), W(0,0,14,0),
     W(2,2,1,12), W(15,4,0,7), W(0,2,1,10),
     W(12,3,15,15), W(3,1,0,0), W(14,1,10,1), W(15,1,1,14), W(0,0,14,14) >>

\* DT := 3, then two jumps that follow each other for ever
RomDelayLoop == << W(6,0,0,3), W(15,0,1,5), W(0,2,0,6), W(0,2,0,4) >>

AddRoms ==
  {RomAlu(4, p[1], p[2], a, b) : p \in RegPairs, a \in ArithVals, b \in ArithVals}
SubRoms ==
  {RomAlu(n, p[1], p[2], a, b) :
     n \in {5, 7}, p \in RegPairs, a \in ArithVals, b \in ArithVals}
AddImmRoms ==
  {RomAddImm(x, a, b) : x \in {1, 15}, a \in ArithVals, b \in ArithVals}
    \cup {RomScenarioA}
FlagRoms ==
  {RomAlu(n, 15, 1, a, b) : n \in {4, 5, 6, 7, 14}, a \in ArithVals, b \in ArithVals}
MemRoms ==
  {RomStoreLoad, RomStoreFont, RomBcdFont, RomScenarioC, RomBcdEnd, RomStoreEnd,
   RomDrawEnd, RomLoadEnd}
MixedRoms == {RomMixed}
DesktopRoms == {RomDelayLoop}

\* key indices held in Vx: both ends of the keypad, and beyond it
KeyVals == {0, MaxKey, KEYPAD_SIZE - 1, KEYPAD_SIZE, U8 - 1}

\* V0 := v, E09E (nn = 0x9E) or E0A1 (nn = 0xA1), then a spin at each of the
\* two addresses the skip can leave pc at
RomSkipKey(v, nn) ==
  << W(6,0,0,0) + v, W(14,0,0,0) + nn, W(0,2,0,4), W(0,2,0,6) >>

KeyRoms == {RomSkipKey(v, nn) : v \in KeyVals, nn \in {158, 161}}

StackRoms == {RomRecurse, RomNested, RomRetEmpty, RomCallLoop, RomCallHigh}
PcRoms == {RomRunOff, RomRunOdd, RomJumpFar, RomSkipEnd}
DispatchRoms == {RomDispatch}
TimerRoms == {RomTimers(p[1], p[2]) : p \in TimerPairs} \cup {RomDelayMax, RomSoundMax}
DrawRoms == {RomDraw, RomDrawOver, RomDrawVF}
Roms == StackRoms \cup PcRoms \cup DispatchRoms \cup TimerRoms \cup DrawRoms
ScreenRoms == DrawRoms \cup MixedRoms

\* the bytes the Cxnn arm may draw
RandomBytes == {0, 165, 255}

(* -------------------------------- actions ------------------------------- *)
PowerOn(roms) ==
  /\ \E rom \in roms : chip8 = load_rom(new, Bytes(rom))
  /\ panicked = FALSE
  /\ overflow_checks \in BOOLEAN
  /\ calls = 0
  /\ returns = 0
  /\ call_sites = << >>
  /\ last = [op |-> -1, screen |-> chip8.screen, v_reg |-> chip8.v_reg]
  /\ timer_hist = [dt_load |-> 0, dt_adv |-> 0, st_load |-> 0, st_adv |-> 0]
  /\ frame = 0

Init == PowerOn(Roms)

\* the opcode word at pc (the fetch reads it), -1 where the fetch panics
OpAt(c) == IF fetch(c).panic THEN -1 ELSE fetch(c).op

IsCall(op) == op \div 4096 = 2
IsRet(op) == op = 238

\* one call of tick by a front-end, with the history it leaves
TickStep ==
  /\ ~panicked
  /\ calls < MaxCalls
  /\ \E random \in RandomBytes :
       LET r == tick(chip8, random, overflow_checks)
           op == OpAt(chip8)
           done == ~r.panic
       IN  /\ chip8' = r.c
           /\ panicked' = r.panic
           /\ calls' = IF done /\ IsCall(op) THEN calls + 1 ELSE calls
           /\ returns' = IF done /\ IsRet(op) THEN returns + 1 ELSE returns
           /\ call_sites' =
                IF done /\ IsCall(op) THEN Append(call_sites, chip8.pc)
                ELSE IF done /\ IsRet(op) /\ Len(call_sites) > 0
                THEN SubSeq(call_sites, 1, Len(call_sites) - 1)
                ELSE call_sites
           /\ last' = [op |-> op, screen |-> chip8.screen, v_reg |-> chip8.v_reg]
           /\ timer_hist' =
                [timer_hist EXCEPT
                   !.dt_load = IF done /\ op \div 4096 = 15 /\ op % 256 = 21
                               THEN r.c.delay_timer ELSE @,
                   !.dt_adv = IF done /\ op \div 4096 = 15 /\ op % 256 = 21
                              THEN 0 ELSE @,
                   !.st_load = IF done /\ op \div 4096 = 15 /\ op % 256 = 24
                               THEN r.c.sound_timer ELSE @,
                   !.st_adv = IF done /\ op \div 4096 = 15 /\ op % 256 = 24
                              THEN 0 ELSE @]
  /\ UNCHANGED overflow_checks

Tick == TickStep /\ UNCHANGED frame

\* advances counted up to one past the loaded value: from there the timer rests
Timers ==
  /\ ~panicked
  /\ chip8' = timers(chip8)
  /\ timer_hist' =
       [timer_hist EXCEPT
          !.dt_adv = IF @ > timer_hist.dt_load THEN @ ELSE @ + 1,
          !.st_adv = IF @ > timer_hist.st_load THEN @ ELSE @ + 1]
  /\ UNCHANGED << panicked, overflow_checks, calls, returns, call_sites, last,
                  frame >>

SetKeypad ==
  /\ ~panicked
  /\ \E idx \in 0..MaxKey, pressed \in BOOLEAN :
       chip8' = set_keypad(chip8, idx, pressed)
  /\ UNCHANGED << panicked, overflow_checks, calls, returns, call_sites, last,
                  timer_hist, frame >>

Next == Tick \/ Timers \/ SetKeypad

Spec == Init /\ [][Next]_vars

\* the same machine, started on one family of programs
SpecStack == PowerOn(StackRoms) /\ [][Next]_vars
SpecPc == PowerOn(PcRoms) /\ [][Next]_vars
SpecDispatch == PowerOn(DispatchRoms) /\ [][Next]_vars
SpecTimers == PowerOn(TimerRoms) /\ [][Next]_vars
SpecDraw == PowerOn(DrawRoms) /\ [][Next]_vars
SpecAdd == PowerOn(AddRoms) /\ [][Next]_vars
SpecSub == PowerOn(SubRoms) /\ [][Next]_vars
SpecAddImm == PowerOn(AddImmRoms) /\ [][Next]_vars
SpecFlag == PowerOn(FlagRoms) /\ [][Next]_vars
SpecMem == PowerOn(MemRoms) /\ [][Next]_vars
SpecTick == PowerOn(MixedRoms) /\ [][Next]_vars
SpecKey == PowerOn(KeyRoms) /\ [][Next]_vars
SpecScreen == PowerOn(ScreenRoms) /\ [][Next]_vars

(* --------------------------- the desktop loop --------------------------- *)
\* 'gameloop of the desktop front-end: the pending key events, then
\* TICKS_PER_FRAME ticks, then draw_screen; Quit breaks the loop.
DesktopRunning == frame >= 0 /\ ~panicked

DesktopPoll ==
  /\ DesktopRunning
  /\ frame = 0
  /\ \E idx \in 0..MaxKey, pressed \in BOOLEAN :
       chip8' = set_keypad(chip8, idx, pressed)
  /\ UNCHANGED << panicked, overflow_checks, calls, returns, call_sites, last,
                  timer_hist, frame >>

DesktopQuit ==
  /\ DesktopRunning
  /\ frame = 0
  /\ frame' = -1
  /\ UNCHANGED << chip8, panicked, overflow_checks, calls, returns, call_sites,
                  last, timer_hist >>

DesktopTick ==
  /\ DesktopRunning
  /\ frame < TICKS_PER_FRAME
  /\ TickStep
  /\ frame' = frame + 1

\* draw_screen reads the display and changes nothing; the next frame begins
DesktopDraw ==
  /\ DesktopRunning
  /\ frame = TICKS_PER_FRAME
  /\ frame' = 0
  /\ UNCHANGED << chip8, panicked, overflow_checks, calls, returns, call_sites,
                  last, timer_hist >>

NextDesktop == DesktopPoll \/ DesktopQuit \/ DesktopTick \/ DesktopDraw

\* the loop is sequential code: it keeps taking its next step
SpecDesktop ==
  /\ PowerOn(DesktopRoms)
  /\ [][NextDesktop]_vars
  /\ WF_vars(DesktopTick)
  /\ WF_vars(DesktopDraw)


(* -------------------------------- claims -------------------------------- *)
Max(a, b) == IF a >= b THEN a ELSE b
Blank == [i \in 0..(SCREEN_WIDTH * SCREEN_HEIGHT - 1) |-> 0]
OpX(op) == (op \div 256) % 16
OpY(op) == (op \div 16) % 16
IsDraw(op) == op \div 4096 = 13
IsJump(op) == op \div 4096 = 1
IsKeyWait(op) == op \div 4096 = 15 /\ op % 256 = 10

\* the instruction table of the specification (section 4.4)
InTable(op) ==
  LET n0 == op \div 4096
      n == op % 16
      nn == op % 256
  IN  \/ op \in {0, 224, 238}
      \/ n0 \in {1, 2, 3, 4, 6, 7, 10, 11, 12, 13}
      \/ n0 \in {5, 9} /\ n = 0
      \/ n0 = 8 /\ n \in {0, 1, 2, 3, 4, 5, 6, 7, 14}
      \/ n0 = 14 /\ nn \in {158, 161}
      \/ n0 = 15 /\ nn \in {7, 10, 21, 24, 30, 41, 51, 85, 101}

\* the cells under the set bits of the sprite an executing Dxyn reads
SpriteCells(c, op) ==
  { ((c.v_reg[OpX(op)] + rc[2]) % SCREEN_WIDTH)
      + SCREEN_WIDTH * ((c.v_reg[OpY(op)] + rc[1]) % SCREEN_HEIGHT) :
    rc \in { q \in (0..((op % 16) - 1)) \X (0..7) :
             Bit(c.memory[c.index_reg + q[1]], 7 - q[2]) = 1 } }

\* C1: a tick executing 2nnn at p with fewer than 16 entries on the stack
\* stores p+2 on top and sets pc to nnn; a tick executing 00EE sets pc to the
\* call site + 2 of the latest call not yet returned from (LIFO).
C1_CallReturn ==
  [][Tick =>
      LET op == OpAt(chip8)
          sp == chip8.stack_pointer
      IN  /\ (IsCall(op) /\ sp < STACK_REG_SIZE) =>
                /\ ~panicked'
                /\ chip8'.pc = op % 4096
                /\ chip8'.stack_pointer = sp + 1
                /\ chip8'.stack[sp] = chip8.pc + 2
          /\ (IsRet(op) /\ Len(call_sites) > 0) =>
                /\ ~panicked'
                /\ chip8'.pc = call_sites[Len(call_sites)] + 2
                /\ chip8'.stack_pointer = sp - 1]_vars

\* sixteen nested calls have been made and all sixteen have returned
C1_Witness ==
  /\ calls = 16
  /\ returns = 16
  /\ chip8.stack_pointer = 0
  /\ chip8.pc = START_ADDRESS + 2
  /\ ~panicked

\* C2: a 2nnn tick on a full stack and a 00EE tick on an empty stack return a
\* fault without crashing and leave stack, stack pointer and memory as they were.
C2_StackFaultReturned ==
  [][Tick =>
      LET op == OpAt(chip8)
          sp == chip8.stack_pointer
      IN  ((IsCall(op) /\ sp = STACK_REG_SIZE) \/ (IsRet(op) /\ sp = 0)) =>
             /\ ~panicked'
             /\ chip8'.stack = chip8.stack
             /\ chip8'.stack_pointer = sp
             /\ chip8'.memory = chip8.memory]_vars

\* C3: a tick started with pc >= 4095 reports a fault instead of crashing and
\* executes nothing.
C3_FetchFaultReturned ==
  [][(Tick /\ chip8.pc >= RAM_SIZE - 1) => (~panicked' /\ chip8' = chip8)]_vars

\* C4: in every reachable state the program counter is a memory address.
C4_PcInMemory == chip8.pc \in 0..(RAM_SIZE - 1)

\* C5: in every reachable state the stack pointer is in [0,16] and equals the
\* calls executed minus the returns executed.
C5_StackPointer ==
  /\ chip8.stack_pointer \in 0..STACK_REG_SIZE
  /\ chip8.stack_pointer = calls - returns

\* C6: a tick whose opcode is not in the instruction table changes nothing but
\* pc, which advances by 2.
C6_UnknownIsNoOp ==
  [][(Tick /\ OpAt(chip8) >= 0 /\ ~InTable(OpAt(chip8))) =>
       (~panicked' /\ chip8' = [chip8 EXCEPT !.pc = chip8.pc + 2])]_vars

\* C7: a tick whose opcode is 1nnn sets pc to nnn and changes nothing else.
C7_JumpSetsPc ==
  [][(Tick /\ IsJump(OpAt(chip8))) =>
       chip8' = [chip8 EXCEPT !.pc = OpAt(chip8) % 4096]]_vars

\* C8: a tick at an Fx0A with no key pressed leaves pc and the registers as
\* they were; with a key pressed it puts a pressed key's index in Vx and leaves
\* pc 2 past the instruction.
C8_KeyWaitBlocks ==
  [][(Tick /\ IsKeyWait(OpAt(chip8))) =>
       IF \A k \in 0..(KEYPAD_SIZE - 1) : ~chip8.keypad[k]
       THEN chip8'.pc = chip8.pc /\ chip8'.v_reg = chip8.v_reg
       ELSE /\ chip8'.pc = chip8.pc + 2
            /\ chip8'.v_reg[OpX(OpAt(chip8))] \in 0..(KEYPAD_SIZE - 1)
            /\ chip8.keypad[chip8'.v_reg[OpX(OpAt(chip8))]]]_vars

\* C9: each timer, k advances after it was loaded with t, holds max(t - k, 0).
C9_TimerCountdown ==
  /\ chip8.delay_timer = Max(timer_hist.dt_load - timer_hist.dt_adv, 0)
  /\ chip8.sound_timer = Max(timer_hist.st_load - timer_hist.st_adv, 0)

\* the delay timer was loaded with 255 and has been advanced past zero
C9_Witness ==
  /\ timer_hist.dt_load = U8 - 1
  /\ timer_hist.dt_adv = U8
  /\ chip8.delay_timer = 0

\* C10 as stated: the second of two identical Dxyn ticks in a row (same
\* coordinates, a sprite with a set bit) restores the framebuffer and leaves
\* VF = 1.
C10_SecondDrawSetsVF ==
  [][(/\ Tick
      /\ IsDraw(OpAt(chip8))
      /\ last.op = OpAt(chip8)
      /\ last.v_reg[OpX(last.op)] = chip8.v_reg[OpX(last.op)]
      /\ last.v_reg[OpY(last.op)] = chip8.v_reg[OpY(last.op)]
      /\ SpriteCells(chip8, OpAt(chip8)) # {}
      /\ ~panicked') =>
       (chip8'.screen = last.screen /\ chip8'.v_reg[15] = 1)]_vars

\* C10 as amended: with x and y other than F, the second of two identical
\* Dxyn ticks in a row restores the framebuffer, and leaves VF = 1 exactly
\* when a set sprite bit lies on a cell that was 0 before the first draw.
C10_RoundTrip ==
  [][(/\ Tick
      /\ IsDraw(OpAt(chip8))
      /\ last.op = OpAt(chip8)
      /\ OpX(last.op) # 15
      /\ OpY(last.op) # 15
      /\ ~panicked') =>
       /\ chip8'.screen = last.screen
       /\ chip8'.v_reg[15] =
            IF \E i \in SpriteCells(chip8, OpAt(chip8)) : last.screen[i] = 0
            THEN 1 ELSE 0]_vars

\* a third identical draw has redrawn the sprite the second one erased
C10_Witness ==
  /\ last.op = W(13,0,1,5)
  /\ chip8.pc = START_ADDRESS + 10
  /\ last.screen = Blank
  /\ chip8.screen # Blank
  /\ chip8.v_reg[15] = 0

IsAlu(op, n) == op \div 4096 = 8 /\ op % 16 = n
IsAddImm(op) == op \div 4096 = 7
IsIndexed(op, nn) == op \div 4096 = 15 /\ op % 256 = nn

\* C11: a Dxyn tick flips exactly the cells under the set sprite bits, placed
\* from Vx and Vy as they stand when the instruction starts (x, y = F
\* included), and leaves VF = 1 if one of those cells was set, else 0.
C11_DrawFromStartRegisters ==
  [][(Tick /\ IsDraw(OpAt(chip8)) /\ ~panicked') =>
       LET cells == SpriteCells(chip8, OpAt(chip8))
       IN  /\ chip8'.screen =
                [i \in 0..(SCREEN_WIDTH * SCREEN_HEIGHT - 1) |->
                   IF i \in cells THEN 1 - chip8.screen[i] ELSE chip8.screen[i]]
           /\ chip8'.v_reg[15] =
                IF \E i \in cells : chip8.screen[i] = 1 THEN 1 ELSE 0]_vars

\* C12: a tick of 8xy4 (x other than F) leaves Vx = (Vx + Vy) mod 256 and
\* VF = 1 if Vx + Vy > 255, else VF = 0.
C12_AddCarry ==
  [][(Tick /\ IsAlu(OpAt(chip8), 4) /\ OpX(OpAt(chip8)) # 15) =>
       LET vx == chip8.v_reg[OpX(OpAt(chip8))]
           vy == chip8.v_reg[OpY(OpAt(chip8))]
       IN  /\ ~panicked'
           /\ chip8'.v_reg[OpX(OpAt(chip8))] = (vx + vy) % U8
           /\ chip8'.v_reg[15] = IF vx + vy > U8 - 1 THEN 1 ELSE 0]_vars

\* scenario B: 8014 with V0 = 0xFF and V1 = 1 has left V0 = 0 and VF = 1
C12_Witness ==
  /\ last.op = W(8,0,1,4)
  /\ last.v_reg[0] = U8 - 1
  /\ last.v_reg[1] = 1
  /\ chip8.v_reg[0] = 0
  /\ chip8.v_reg[15] = 1

\* C13: a tick of 8xy5 (x other than F) leaves Vx = (Vx - Vy) mod 256 and
\* VF = 1 iff Vx >= Vy; a tick of 8xy7 leaves Vx = (Vy - Vx) mod 256 and
\* VF = 1 iff Vy >= Vx.
C13_SubNotBorrow ==
  [][(/\ Tick
      /\ (IsAlu(OpAt(chip8), 5) \/ IsAlu(OpAt(chip8), 7))
      /\ OpX(OpAt(chip8)) # 15) =>
       LET vx == chip8.v_reg[OpX(OpAt(chip8))]
           vy == chip8.v_reg[OpY(OpAt(chip8))]
           a == IF IsAlu(OpAt(chip8), 5) THEN vx ELSE vy
           b == IF IsAlu(OpAt(chip8), 5) THEN vy ELSE vx
       IN  /\ ~panicked'
           /\ chip8'.v_reg[OpX(OpAt(chip8))] = (a - b) % U8
           /\ chip8'.v_reg[15] = IF a >= b THEN 1 ELSE 0]_vars

\* 8017 with V0 = 1 and V1 = 0 has borrowed: V0 = 255 and VF = 0
C13_Witness ==
  /\ last.op = W(8,0,1,7)
  /\ last.v_reg[0] = 1
  /\ last.v_reg[1] = 0
  /\ chip8.v_reg[0] = U8 - 1
  /\ chip8.v_reg[15] = 0

\* C14: a tick of 7xnn leaves Vx = (Vx + nn) mod 256 and every other
\* register, VF among them, as it was, overflow or not.
C14_AddImmediate ==
  [][(Tick /\ IsAddImm(OpAt(chip8))) =>
       /\ ~panicked'
       /\ chip8'.v_reg =
            [chip8.v_reg EXCEPT ![OpX(OpAt(chip8))] = (@ + (OpAt(chip8) % 256)) % U8]]_vars

\* 7102 with V1 = 255 has wrapped to V1 = 1 and VF still holds its 7
C14_Witness ==
  /\ last.op = W(7,1,0,2)
  /\ last.v_reg[1] = U8 - 1
  /\ last.v_reg[15] = 7
  /\ chip8.v_reg[1] = 1
  /\ chip8.v_reg[15] = 7

\* C15: with I + x < 4096, a tick of Fx55 leaves memory[I + i] = Vi and a tick
\* of Fx65 leaves Vi = memory[I + i], for every i in 0..x; both leave I as it
\* was.
C15_StoreLoad ==
  [][(/\ Tick
      /\ (IsIndexed(OpAt(chip8), 85) \/ IsIndexed(OpAt(chip8), 101))
      /\ chip8.index_reg + OpX(OpAt(chip8)) < RAM_SIZE) =>
       /\ ~panicked'
       /\ chip8'.index_reg = chip8.index_reg
       /\ \A i \in 0..OpX(OpAt(chip8)) :
            IF IsIndexed(OpAt(chip8), 85)
            THEN chip8'.memory[chip8.index_reg + i] = chip8.v_reg[i]
            ELSE chip8'.v_reg[i] = chip8.memory[chip8.index_reg + i]]_vars

\* C16: in every reachable state memory bytes [0, 80) hold the font table.
C16_FontIntact ==
  \A a \in 0..(FONTSET_SIZE - 1) : chip8.memory[a] = FONTSET[a + 1]

\* the last byte an instruction addresses relative to the index register
\* (-1: none)
LastAddressed(c, op) ==
  IF IsDraw(op) THEN (IF op % 16 = 0 THEN -1 ELSE c.index_reg + (op % 16) - 1)
  ELSE IF IsIndexed(op, 51) THEN c.index_reg + 2
  ELSE IF IsIndexed(op, 85) \/ IsIndexed(op, 101) THEN c.index_reg + OpX(op)
  ELSE -1

\* C17: a tick of Dxyn, Fx33, Fx55 or Fx65 that addresses a byte at or beyond
\* 4096 returns (reporting the fault) and leaves memory, the registers and
\* the framebuffer as they were.
C17_IndexFaultReported ==
  [][(Tick /\ LastAddressed(chip8, OpAt(chip8)) >= RAM_SIZE) =>
       /\ ~panicked'
       /\ chip8'.memory = chip8.memory
       /\ chip8'.v_reg = chip8.v_reg
       /\ chip8'.screen = chip8.screen]_vars

\* C18: a tick leaves each timer as it was, except that a tick of Fx15 sets
\* the delay timer to Vx and a tick of Fx18 sets the sound timer to Vx.
C18_TickLeavesTimers ==
  [][Tick =>
       LET op == OpAt(chip8)
       IN  /\ chip8'.delay_timer =
                IF IsIndexed(op, 21) THEN chip8.v_reg[OpX(op)]
                ELSE chip8.delay_timer
           /\ chip8'.sound_timer =
                IF IsIndexed(op, 24) THEN chip8.v_reg[OpX(op)]
                ELSE chip8.sound_timer]_vars

\* both timers were loaded with 3 and advanced once; the ticks since, down to
\* the return from the subroutine, have left them at 2
C18_Witness ==
  /\ last.op = W(0,0,14,14)
  /\ timer_hist.dt_load = 3
  /\ timer_hist.st_load = 3
  /\ timer_hist.dt_adv = 1
  /\ timer_hist.st_adv = 1
  /\ chip8.delay_timer = 2
  /\ chip8.sound_timer = 2

\* the flag an 8xyn defines: carry, no borrow, or the bit shifted out
Flag(c, op) ==
  LET vx == c.v_reg[OpX(op)]
      vy == c.v_reg[OpY(op)]
      n == op % 16
  IN  IF n = 4 THEN (IF vx + vy > U8 - 1 THEN 1 ELSE 0)
      ELSE IF n = 5 THEN (IF vx >= vy THEN 1 ELSE 0)
      ELSE IF n = 7 THEN (IF vy >= vx THEN 1 ELSE 0)
      ELSE IF n = 6 THEN vx % 2
      ELSE vx \div 128

\* C19: a tick of 8Fy4, 8Fy5, 8Fy6, 8Fy7 or 8FyE leaves the flag in VF.
C19_FlagWrittenLast ==
  [][(/\ Tick
      /\ OpAt(chip8) \div 4096 = 8
      /\ OpAt(chip8) % 16 \in {4, 5, 6, 7, 14}
      /\ OpX(OpAt(chip8)) = 15) =>
       chip8'.v_reg[15] = Flag(chip8, OpAt(chip8))]_vars

\* C20: while the desktop loop runs, a timer above 0 eventually reaches 0.
C20_LoadedTimerReachesZero ==
  (chip8.delay_timer > 0) ~> (chip8.delay_timer = 0 \/ frame = -1)

IsSkipKey(op) == op \div 4096 = 14 /\ op % 256 \in {158, 161}

\* C21: a tick of Ex9E or ExA1 returns for every Vx in 0..255; the key counts
\* as pressed only if Vx < 16 and keypad[Vx] is set; Ex9E skips (pc + 4) iff
\* it is pressed, ExA1 iff it is not, and otherwise pc advances by 2.
C21_SkipKeyInRange ==
  [][(Tick /\ IsSkipKey(OpAt(chip8))) =>
       LET vx == chip8.v_reg[OpX(OpAt(chip8))]
           pressed == vx < KEYPAD_SIZE /\ chip8.keypad[vx]
           skips == pressed = (OpAt(chip8) % 256 = 158)
       IN  /\ ~panicked'
           /\ chip8'.pc = chip8.pc + (IF skips THEN 4 ELSE 2)]_vars

\* C22: every framebuffer cell holds 0 or 1 in every reachable state, and a
\* step that changes a cell is a tick of 00E0 or of Dxyn.
C22_ScreenCells ==
  /\ [](\A i \in 0..(SCREEN_WIDTH * SCREEN_HEIGHT - 1) : chip8.screen[i] \in {0, 1})
  /\ [][chip8'.screen # chip8.screen =>
          (Tick /\ (OpAt(chip8) = 224 \/ IsDraw(OpAt(chip8))))]_vars

\* glyph 1 has been drawn over glyph 0: cells went from 1 to 0 (collision)
\* and the ticks since have left the picture as the draw left it
C22_Witness ==
  /\ last.op = W(13,0,1,5)
  /\ chip8.pc = START_ADDRESS + 6
  /\ chip8.index_reg = 5
  /\ chip8.v_reg[15] = 1
  /\ \E i \in 0..(SCREEN_WIDTH * SCREEN_HEIGHT - 1) :
       last.screen[i] = 1 /\ chip8.screen[i] = 0
  /\ \E i \in 0..(SCREEN_WIDTH * SCREEN_HEIGHT - 1) : chip8.screen[i] = 1

=============================================================================
